---- MODULE Spec2Model ----
(***************************************************************************)
(* Model of physics_engine.js (src/unnamed/part_000) and of the URL        *)
(* parameter it shares with listeners.js: placement of the cube robots,    *)
(* the per-frame collision pass, the direction dispatch and the four       *)
(* movement functions.                                                     *)
(*                                                                         *)
(* Numbers are fixed point, so that every update of the source is an       *)
(* exact integer update:                                                   *)
(*   - the sliders are kept as the DOM holds them: piston_output is        *)
(*     force * 100, mass is mass * 1000;                                   *)
(*   - a length is counted in 1/WU world units, WU = 36000 * MassLcm;      *)
(*     a translational velocity in the same unit per frame;                *)
(*   - an angular velocity is counted in 1/(240 * MassLcm) rad/s and an    *)
(*     angle in 1/RU rad, RU = 360 * 240 * MassLcm, so that                *)
(*     "angle += angular_velocity * time_step" adds the same integer;      *)
(*   - sin(45 deg) and cos(45 deg) are 707/1000.                           *)
(* THREE.Box3.setFromObject is library code: its world-axis hull of the    *)
(* rotated cube and its pistons is computed with |cos a| + |sin a|         *)
(* linearised between the multiples of 45 degrees.                         *)
(***************************************************************************)
EXTENDS Integers, Sequences, FiniteSets, TLC

(* ---------------------------- bounds ----------------------------------- *)

\* frames the model runs
MaxFrames == 2
\* the largest numeric num_robots the URL carries
MaxCount == 4
\* slider movements by the user
MaxSliderMoves == 1
\* frames the model runs when there is a single robot
MaxLoneFrames == 3

\* values of the piston_output slider (force * 100) and of the mass slider
\* (mass * 1000); the mass is positive
ForceValues == {0, 100}
MassValues == {1, 50}

(* ---------------------------- units ------------------------------------ *)

RECURSIVE Gcd(_, _)
Gcd(a, b) == IF b = 0 THEN a ELSE Gcd(b, a % b)

Lcm(a, b) == (a * b) \div Gcd(a, b)

RECURSIVE LcmOf(_)
LcmOf(S) == IF S = {} THEN 1 ELSE LET m == CHOOSE m \in S : TRUE IN Lcm(m, LcmOf(S \ {m}))

\* every modelled mass divides it, and so does 3 (gravity * time_step)
MassLcm == LcmOf(MassValues \cup {3})

\* one world unit of length
WU == 36000 * MassLcm
\* one radian
RU == 360 * 240 * MassLcm

Abs(v) == IF v < 0 THEN -v ELSE v

Vec(x, y, z) == [x |-> x, y |-> y, z |-> z]

Zero == Vec(0, 0, 0)

(* ------------------------ program constants ---------------------------- *)

\* time_step = 1 / 360
TimeStepInv == 360
\* this.gravity.y = GRAVITY_ACCELERATION * 10
GravityY == 98
\* the field's half extent in collision_detection
Boundary == 20
\* Math.random() * 36 - 18
FieldSpan == 36
FieldOffset == 18
\* Math.sin(this.angle), Math.cos(this.angle) with angle = 45 degrees, per mille
Sin45 == 707
Cos45 == 707

\* THREE.MathUtils.degToRad, in angle units
degToRad(d) == ((((d * 31416) \div 180) * (RU \div 100)) \div 100)

tipping_point_angle == degToRad(45)
full_rotation == degToRad(90)

\* robot_size / 2: BoxGeometry(2, 2, 2)
HalfSize == WU
\* piston_size - 0.8 with piston_size = robot_size.x / 2 - 0.1
piston_face_location == WU \div 10
\* CylinderGeometry(0.3, 0.3, 2, 32)
PistonRadius == (3 * WU) \div 10
PistonHalfLength == WU

\* (Math.random() * 0.1) - 0.09 lies in [-0.09, 0.01)
RandomValues == {-((90 * (RU \div 1000))), (9 * (RU \div 1000))}

(* ------------------------- bounding boxes ------------------------------ *)

\* |cos a| + |sin a| - 1 of the library's rotated hull, as a length for a cube
\* of half size HalfSize: 0 at the multiples of 90 degrees, 0.414 * HalfSize at
\* the odd multiples of 45 degrees, linear in between
Spread(a) ==
    LET m == Abs(a) % full_rotation
        t == IF m <= tipping_point_angle THEN m ELSE full_rotation - m
    IN  (((HalfSize \div 1000) * 414) * ((t * 100) \div tipping_point_angle)) \div 100

Min2(a, b) == IF a < b THEN a ELSE b
Max2(a, b) == IF a > b THEN a ELSE b

\* new THREE.Box3().setFromObject(this.cube) in the constructor: the cube has
\* no rotation and no children yet
Box3_of_cube(x, y, z) ==
    [min |-> Vec(x - HalfSize, y - HalfSize, z - HalfSize),
     max |-> Vec(x + HalfSize, y + HalfSize, z + HalfSize)]

\* this.bounding_box.setFromObject(this.cube) once the pistons are attached:
\* the hull of the rotated cube, of the five fixed pistons (which reach
\* piston_face_location out of their faces) and of piston_bottom where the
\* movement functions have pushed it
setFromObject(r) ==
    LET p  == r.position
        pb == r.piston_bottom.position
        ex == HalfSize + piston_face_location + Spread(r.rotation.y) + Spread(r.rotation.z)
        ey == HalfSize + piston_face_location + Spread(r.rotation.x) + Spread(r.rotation.z)
        ez == HalfSize + piston_face_location + Spread(r.rotation.x) + Spread(r.rotation.y)
    IN  [min |-> Vec(p.x + Min2(-ex, pb.x - PistonRadius),
                     p.y + Min2(-ey, pb.y - PistonHalfLength),
                     p.z + Min2(-ez, pb.z - PistonRadius)),
         max |-> Vec(p.x + Max2(ex, pb.x + PistonRadius),
                     p.y + Max2(ey, pb.y + PistonHalfLength),
                     p.z + Max2(ez, pb.z + PistonRadius))]

update_bounding_box(r) == [r EXCEPT !.bounding_box = setFromObject(r)]

\* THREE.Box3.intersectsBox: closed intervals on the three axes
intersectsBox(a, b) ==
    ~ (\/ b.max.x < a.min.x \/ b.min.x > a.max.x
       \/ b.max.y < a.min.y \/ b.min.y > a.max.y
       \/ b.max.z < a.min.z \/ b.min.z > a.max.z)

(* ----------------------------- cube_robot ------------------------------ *)

\* the constructor; index is 0 until initialize_robots assigns it
cube_robot(x, y, z) ==
    [position               |-> Vec(x, y, z),
     rotation               |-> Zero,
     angular_velocity       |-> Zero,
     translational_velocity |-> Zero,
     bounding_box           |-> Box3_of_cube(x, y, z),
     position_in_world      |-> Zero,
     piston_bottom          |-> [position |-> Vec(0, -piston_face_location, 0),
                                 rotation |-> Zero],
     index                  |-> 0]

\* the angular step with the inertia of a cube about an edge, (1 / 3) * m * a^2
AngularStep_about_edge(piston_output, mass) ==
    (piston_output * Sin45 * MassLcm) \div (2 * mass)

\* angular_acceleration * time_step for one axis the piston acts on:
\*   torque  = (piston_output / 100) * axis_rotation_distance * sin(angle),
\*             axis_rotation_distance = (robot_size.x / 2) / 100 = 1 / 100
\*   inertia = (1 / 6) * (mass / 1000) * (robot_size.x / 100) ^ 2
\*   torque / inertia / 360 = piston_output * Sin45 / (240 * mass) rad/s
AngularStep(piston_output, mass) == (piston_output * Sin45 * MassLcm) \div mass

\* translational_acceleration * time_step for one axis the piston acts on:
\*   (piston_output / 100) * cos(angle) / (mass / 1000) / 360
\*   = piston_output * Cos45 / (36000 * mass) world units per frame
TranslationalStep(piston_output, mass) == (piston_output * Cos45 * MassLcm) \div mass

\* gravity.clone().multiplyScalar(time_step): (0, 98 / 360, 0) rad/s
GravityStep == (GravityY * 240 * MassLcm) \div TimeStepInv

\* an angular velocity times time_step, read as a length (the piston's offset)
AngleAsLength(a) == (a * 5) \div 12
\* a translational velocity times time_step
TimesTimeStep(v) == v \div TimeStepInv

\* _calculate_physics taking the acceleration off the velocities
_calculate_physics_decays(r, piston_output, mass) ==
    LET da == AngularStep(piston_output, mass)
        dt == TranslationalStep(piston_output, mass)
    IN  [r EXCEPT !.angular_velocity = Vec(@.x - da, @.y - 0, @.z - da),
                  !.translational_velocity = Vec(@.x - dt, @.y - 0, @.z - dt)]

_calculate_physics(r, piston_output, mass) ==
    LET da == AngularStep(piston_output, mass)
        dt == TranslationalStep(piston_output, mass)
    IN  [r EXCEPT !.angular_velocity = Vec(@.x + da, @.y + 0, @.z + da),
                  !.translational_velocity = Vec(@.x + dt, @.y + 0, @.z + dt)]

(* ------------------------- movement functions -------------------------- *)

\* move_away: rotation and translation from the velocities
move_away_integrate(r) ==
    update_bounding_box(
        [r EXCEPT !.rotation.x = @ - r.angular_velocity.z,
                  !.position.z = @ - r.translational_velocity.z])

\* move_away: piston behaviour below the tipping point
move_away_piston(r) ==
    IF Abs(r.rotation.x) < tipping_point_angle
    THEN update_bounding_box(
             [r EXCEPT !.piston_bottom.rotation.x = tipping_point_angle,
                       !.piston_bottom.position.y = @ - AngleAsLength(r.angular_velocity.z),
                       !.piston_bottom.position.z = @ - TimesTimeStep(r.translational_velocity.z)])
    ELSE r

\* move_away: tipping point check
move_away_tipping(r) ==
    IF Abs(r.rotation.x) >= tipping_point_angle
    THEN LET g == [r EXCEPT !.angular_velocity.y = @ + GravityStep]
         IN  update_bounding_box(
                 [g EXCEPT !.rotation.x = @ - g.angular_velocity.y,
                           !.position.z = @ - g.translational_velocity.z])
    ELSE r

\* the landing of move_away without the reset of the translational velocity
move_away_landing_keeps_speed(r, random_value) ==
    IF Abs(r.rotation.x) >= full_rotation
    THEN update_bounding_box(
             [r EXCEPT !.angular_velocity = Zero,
                       !.rotation.x = 0,
                       !.rotation.y = random_value,
                       !.piston_bottom.position.y = -piston_face_location])
    ELSE r

\* move_away: rotation check and the random element when landing
move_away_landing(r, random_value) ==
    IF Abs(r.rotation.x) >= full_rotation
    THEN update_bounding_box(
             [r EXCEPT !.angular_velocity = Zero,
                       !.translational_velocity = Zero,
                       !.rotation.x = 0,
                       !.rotation.y = random_value,
                       !.piston_bottom.position.y = -piston_face_location])
    ELSE r

move_away(r, piston_output, mass, random_value) ==
    LET a == move_away_integrate(_calculate_physics(r, piston_output, mass))
        b == move_away_landing(move_away_tipping(move_away_piston(a)), random_value)
    IN  [b EXCEPT !.position_in_world = b.position]

\* move_closer: rotation and translation from the velocities
move_closer_integrate(r) ==
    update_bounding_box(
        [r EXCEPT !.rotation.x = @ + r.angular_velocity.z,
                  !.position.z = @ + r.translational_velocity.z])

\* move_closer: piston behaviour below the tipping point
move_closer_piston(r) ==
    IF Abs(r.rotation.x) < tipping_point_angle
    THEN update_bounding_box(
             [r EXCEPT !.piston_bottom.rotation.x = -tipping_point_angle,
                       !.piston_bottom.position.y = @ - AngleAsLength(r.angular_velocity.z),
                       !.piston_bottom.position.z = @ + TimesTimeStep(r.translational_velocity.z)])
    ELSE r

\* move_closer: tipping point check
move_closer_tipping(r) ==
    IF Abs(r.rotation.x) >= tipping_point_angle
    THEN LET g == [r EXCEPT !.angular_velocity.y = @ + GravityStep]
         IN  update_bounding_box(
                 [g EXCEPT !.rotation.x = @ + g.angular_velocity.y,
                           !.position.z = @ + g.translational_velocity.z])
    ELSE r

\* move_closer: rotation check and the random element when landing
move_closer_landing(r, random_value) ==
    IF Abs(r.rotation.x) >= full_rotation
    THEN update_bounding_box(
             [r EXCEPT !.angular_velocity = Zero,
                       !.translational_velocity = Zero,
                       !.rotation.x = 0,
                       !.rotation.y = random_value,
                       !.piston_bottom.position.y = -piston_face_location])
    ELSE r

move_closer(r, piston_output, mass, random_value) ==
    LET a == move_closer_integrate(_calculate_physics(r, piston_output, mass))
        b == move_closer_landing(move_closer_tipping(move_closer_piston(a)), random_value)
    IN  [b EXCEPT !.position_in_world = b.position]

\* move_left translating along z, as move_away does
move_left_integrate_along_z(r) ==
    update_bounding_box(
        [r EXCEPT !.rotation.z = @ + r.angular_velocity.x,
                  !.position.z = @ - r.translational_velocity.x])

\* move_left: rotation and translation from the velocities
move_left_integrate(r) ==
    update_bounding_box(
        [r EXCEPT !.rotation.z = @ + r.angular_velocity.x,
                  !.position.x = @ - r.translational_velocity.x])

\* move_left: piston behaviour below the tipping point
move_left_piston(r) ==
    IF Abs(r.rotation.z) < tipping_point_angle
    THEN update_bounding_box(
             [r EXCEPT !.piston_bottom.rotation.z = -tipping_point_angle,
                       !.piston_bottom.position.y = @ - AngleAsLength(r.angular_velocity.x),
                       !.piston_bottom.position.x = @ - TimesTimeStep(r.translational_velocity.x)])
    ELSE r

\* move_left: tipping point check
move_left_tipping(r) ==
    IF Abs(r.rotation.z) >= tipping_point_angle
    THEN LET g == [r EXCEPT !.angular_velocity.y = @ + GravityStep]
         IN  update_bounding_box(
                 [g EXCEPT !.rotation.z = @ + g.angular_velocity.x,
                           !.position.x = @ - g.translational_velocity.x])
    ELSE r

\* move_left: rotation check and the random element when landing
move_left_landing(r, random_value) ==
    IF Abs(r.rotation.z) >= full_rotation
    THEN update_bounding_box(
             [r EXCEPT !.angular_velocity = Zero,
                       !.translational_velocity = Zero,
                       !.rotation.z = 0,
                       !.rotation.y = random_value,
                       !.piston_bottom.position.y = -piston_face_location])
    ELSE r

move_left(r, piston_output, mass, random_value) ==
    LET a == move_left_integrate(_calculate_physics(r, piston_output, mass))
        b == move_left_landing(move_left_tipping(move_left_piston(a)), random_value)
    IN  [b EXCEPT !.position_in_world = b.position]

\* move_right: rotation and translation from the velocities
move_right_integrate(r) ==
    update_bounding_box(
        [r EXCEPT !.rotation.z = @ - r.angular_velocity.x,
                  !.position.x = @ + r.translational_velocity.x])

\* move_right: piston behaviour below the tipping point
move_right_piston(r) ==
    IF Abs(r.rotation.z) < tipping_point_angle
    THEN update_bounding_box(
             [r EXCEPT !.piston_bottom.rotation.z = tipping_point_angle,
                       !.piston_bottom.position.y = @ - AngleAsLength(r.angular_velocity.x),
                       !.piston_bottom.position.x = @ - TimesTimeStep(r.translational_velocity.x)])
    ELSE r

\* move_right: tipping point check
move_right_tipping(r) ==
    IF Abs(r.rotation.z) >= tipping_point_angle
    THEN LET g == [r EXCEPT !.angular_velocity.y = @ + GravityStep]
         IN  update_bounding_box(
                 [g EXCEPT !.rotation.z = @ - g.angular_velocity.x,
                           !.position.x = @ + g.translational_velocity.x])
    ELSE r

\* move_right: rotation check and the random element when landing
move_right_landing(r, random_value) ==
    IF Abs(r.rotation.z) >= full_rotation
    THEN update_bounding_box(
             [r EXCEPT !.angular_velocity = Zero,
                       !.translational_velocity = Zero,
                       !.rotation.z = 0,
                       !.rotation.y = random_value,
                       !.piston_bottom.position.y = -piston_face_location])
    ELSE r

move_right(r, piston_output, mass, random_value) ==
    LET a == move_right_integrate(_calculate_physics(r, piston_output, mass))
        b == move_right_landing(move_right_tipping(move_right_piston(a)), random_value)
    IN  [b EXCEPT !.position_in_world = b.position]

(* ------------------------- collision response -------------------------- *)

\* update_robot_index without the way back: 1 -> 2 and 3 -> 4 only
update_robot_index_one_way(robot) ==
    IF robot.index = 1 THEN [robot EXCEPT !.index = 2]
    ELSE IF robot.index = 3 THEN [robot EXCEPT !.index = 4]
    ELSE robot

\* update_robot_index with its last branch assigning 5
update_robot_index_off_by_one(robot) ==
    IF robot.index = 1 THEN [robot EXCEPT !.index = 2]
    ELSE IF robot.index = 2 THEN [robot EXCEPT !.index = 1]
    ELSE IF robot.index = 3 THEN [robot EXCEPT !.index = 4]
    ELSE IF robot.index = 4 THEN [robot EXCEPT !.index = 5]
    ELSE robot

update_robot_index(robot) ==
    IF robot.index = 1 THEN [robot EXCEPT !.index = 2]
    ELSE IF robot.index = 2 THEN [robot EXCEPT !.index = 1]
    ELSE IF robot.index = 3 THEN [robot EXCEPT !.index = 4]
    ELSE IF robot.index = 4 THEN [robot EXCEPT !.index = 3]
    ELSE robot

update_piston(robot) ==
    IF robot.index = 1 \/ robot.index = 2
    THEN [robot EXCEPT !.piston_bottom.rotation.x = robot.rotation.x,
                       !.piston_bottom.position.y = -piston_face_location]
    ELSE IF robot.index = 3 \/ robot.index = 4
    THEN [robot EXCEPT !.piston_bottom.rotation.x = -robot.rotation.x,
                       !.piston_bottom.position.y = piston_face_location]
    ELSE robot

\* the boundary test answering only for a robot that is heading out
out_of_bounds_heading_out(robot) ==
    \/ robot.position_in_world.x < -(Boundary * WU) /\ robot.index = 3
    \/ robot.position_in_world.x > Boundary * WU /\ robot.index = 4
    \/ robot.position_in_world.z < -(Boundary * WU) /\ robot.index = 1
    \/ robot.position_in_world.z > Boundary * WU /\ robot.index = 2

\* the boundary test of collision_detection, on the recorded world position
out_of_bounds(robot) ==
    \/ robot.position_in_world.x < -(Boundary * WU)
    \/ robot.position_in_world.x > Boundary * WU
    \/ robot.position_in_world.z < -(Boundary * WU)
    \/ robot.position_in_world.z > Boundary * WU

\* the boundary check with the position brought back into the field
Clamp(c) == IF c > Boundary * WU THEN Boundary * WU
            ELSE IF c < -(Boundary * WU) THEN -(Boundary * WU) ELSE c

boundary_response_clamps(robots, a) ==
    [robots EXCEPT ![a] = [update_piston(update_robot_index(@)) EXCEPT
                              !.position.x = Clamp(@), !.position.z = Clamp(@)]]

\* the body of the boundary check: update_robot_index(robot_a), update_piston(robot_a)
boundary_response(robots, a) ==
    [robots EXCEPT ![a] = update_piston(update_robot_index(@))]

\* the pair check answering for robot_a alone
pair_response_one_sided(robots, a, b) ==
    [robots EXCEPT ![a] = update_piston(update_robot_index(@))]

\* the body of the pair check: update_robot_index on both, then update_piston
\* on both
pair_response(robots, a, b) ==
    [robots EXCEPT ![a] = update_piston(update_robot_index(@)),
                   ![b] = update_piston(update_robot_index(@))]

(* ----------------------- the num_robots parameter ---------------------- *)

DigitChars == <<"0", "1", "2", "3", "4", "5", "6", "7", "8", "9">>

IsDigit(c) == \E d \in 1..10 : DigitChars[d] = c

DigitValue(c) == (CHOOSE d \in 1..10 : DigitChars[d] = c) - 1

RECURSIVE Decimal(_)
\* the decimal text of a natural number
Decimal(k) == IF k < 10 THEN <<DigitChars[k + 1]>>
              ELSE Append(Decimal(k \div 10), DigitChars[(k % 10) + 1])

\* what the query string may carry: no num_robots at all, an empty value, a
\* word, and the decimal numbers the slider writes into the URL
NoParam == [present |-> FALSE, chars |-> <<>>]
UrlValues ==
    {NoParam}
    \cup {[present |-> TRUE, chars |-> c] :
             c \in {<<>>, <<"a", "b", "c">>, <<"0", "2">>} \cup {Decimal(k) : k \in 0..MaxCount}}

\* url_params.get('num_robots') || 1: null and the empty string are falsy,
\* every other string is kept as it is
num_robots_create(url) ==
    IF ~url.present \/ url.chars = <<>>
    THEN [kind |-> "number", value |-> 1, chars |-> <<>>]
    ELSE [kind |-> "string", value |-> 0, chars |-> url.chars]

RECURSIVE DigitsValue(_)
DigitsValue(cs) == IF cs = <<>> THEN 0
                   ELSE 10 * DigitsValue(SubSeq(cs, 1, Len(cs) - 1)) + DigitValue(cs[Len(cs)])

\* the ToNumber conversion of the comparison i < num_robots: a string of
\* decimal digits is its value, any other non-empty string is NaN
ToNumber(v) ==
    IF v.kind = "number" THEN [nan |-> FALSE, value |-> v.value]
    ELSE IF \A k \in 1..Len(v.chars) : IsDigit(v.chars[k])
    THEN [nan |-> FALSE, value |-> DigitsValue(v.chars)]
    ELSE [nan |-> TRUE, value |-> 0]

\* i < num_robots: false when num_robots converts to NaN
LessThan(n, v) == LET w == ToNumber(v) IN ~w.nan /\ n < w.value

(* ------------------------------ state ---------------------------------- *)

VARIABLES
    url_num_robots,   \* the num_robots parameter of window.location.search
    piston_output,    \* the piston_output slider's value
    mass,             \* the mass slider's value
    slider_moves,     \* slider movements so far
    pc,               \* where the script is
    i, j,             \* the loop indices of the running frame
    robot_array,      \* the robots of initialize_robots, in order
    scene,            \* the cubes in the scene, by place
    raf_pending,      \* requestAnimationFrame(animate) is waiting
    frame,            \* completed frames
    start_index,      \* each robot's index when the collision pass began
    triggers,         \* update_robot_index calls on each robot in this pass
    trace,            \* what the running frame has done, in order
    previous_pass     \* what the collision pass of the frame before found

vars == <<url_num_robots, piston_output, mass, slider_moves, pc, i, j, robot_array,
          scene, raf_pending, frame, start_index, triggers, trace, previous_pass>>

\* const movement = [1, 2, 3, 4]
movement == <<1, 2, 3, 4>>

\* the places initialize_robots samples: x and z = Math.random() * 36 - 18,
\* y = 1.3
\* the field [lo, hi) of Math.random() * 36 - 18
InField(c) == c >= (0 * FieldSpan - FieldOffset) * WU /\ c < (1 * FieldSpan - FieldOffset) * WU

PlaceXs == {c \in {(133 * WU) \div 10, (143 * WU) \div 10, (154 * WU) \div 10, (175 * WU) \div 10} : InField(c)}
PlaceZs == {c \in {(175 * WU) \div 10} : InField(c)}
PlaceY == (13 * WU) \div 10

N == Len(robot_array)

\* no collision pass has run
NoPass == [start_index |-> <<>>, triggers |-> <<>>, outside |-> {}]

\* the running frame's collision pass: the indices it began with, the
\* update_robot_index calls per robot, the robots its boundary test found outside
PassFound ==
    [start_index |-> start_index,
     triggers    |-> triggers,
     outside     |-> {k \in 1..N : \E e \in 1..Len(trace) : trace[e] = <<"boundary", k, TRUE>>}]

\* a run with a single robot is followed for MaxLoneFrames frames
FrameLimit == IF N <= 1 THEN MaxLoneFrames ELSE MaxFrames

Init ==
    /\ url_num_robots \in UrlValues
    /\ piston_output \in ForceValues
    /\ mass \in MassValues
    /\ slider_moves = 0
    /\ pc = "initialize_robots"
    /\ i = 0
    /\ j = 0
    /\ robot_array = <<>>
    /\ scene = <<>>
    /\ raf_pending = FALSE
    /\ frame = 0
    /\ start_index = <<>>
    /\ triggers = <<>>
    /\ trace = <<>>
    /\ previous_pass = NoPass

(* -------------------------- initialize_robots -------------------------- *)

\* scene.add(this.cube) of the constructor
scene_add(s, cube) == Append(s, cube)

RECURSIVE scene_remove(_, _)
\* scene.remove left out: a rejected candidate stays in the scene
scene_remove_nothing(s, cube) == s

\* scene.remove(robot.cube): the cube added last at that place
scene_remove(s, cube) ==
    IF s = <<>> THEN s
    ELSE IF s[Len(s)] = cube THEN SubSeq(s, 1, Len(s) - 1)
    ELSE Append(scene_remove(SubSeq(s, 1, Len(s) - 1), cube), s[Len(s)])

\* the overlap check of a candidate against the robots placed so far
collision_detected(robot, placed) ==
    \E k \in 1..Len(placed) : intersectsBox(robot.bounding_box, placed[k].bounding_box)

\* one turn of the while loop with the candidate at (x, z); m is the random
\* position in movement used when the candidate is kept
place_candidate(x, z, m) ==
    /\ pc = "initialize_robots"
    /\ LessThan(N, num_robots_create(url_num_robots))
    /\ LET robot == cube_robot(x, PlaceY, z)
           cube  == Vec(x, PlaceY, z)
           added == scene_add(scene, cube)
       IN  IF ~collision_detected(robot, robot_array)
           THEN /\ robot_array' = Append(robot_array, [robot EXCEPT !.index = movement[m]])
                /\ scene' = added
           ELSE /\ scene' = scene_remove(added, cube)
                /\ UNCHANGED robot_array
    /\ UNCHANGED <<url_num_robots, piston_output, mass, slider_moves, pc, i, j,
                   raf_pending, frame, start_index, triggers, trace, previous_pass>>

initialize_robots_loop ==
    \E x \in PlaceXs, z \in PlaceZs, m \in 1..Len(movement) : place_candidate(x, z, m)

\* initialize_robots with a way out of the while loop: it returns what it has
\* when no sampled place is free
initialize_robots_gives_up ==
    /\ pc = "initialize_robots"
    /\ \/ ~LessThan(N, num_robots_create(url_num_robots))
       \/ \A x \in PlaceXs, z \in PlaceZs : collision_detected(cube_robot(x, PlaceY, z), robot_array)
    /\ pc' = "idle"
    /\ UNCHANGED <<url_num_robots, piston_output, mass, slider_moves, i, j, robot_array,
                   scene, raf_pending, frame, start_index, triggers, trace, previous_pass>>

\* the for loop's test fails: return robot_array
initialize_robots_return ==
    /\ pc = "initialize_robots"
    /\ ~LessThan(N, num_robots_create(url_num_robots))
    /\ pc' = "idle"
    /\ UNCHANGED <<url_num_robots, piston_output, mass, slider_moves, i, j, robot_array,
                   scene, raf_pending, frame, start_index, triggers, trace, previous_pass>>

(* ------------------------------ sliders -------------------------------- *)

\* the user moves a slider between two callbacks; _calculate_physics reads
\* the sliders' values from the document
piston_output_input ==
    /\ pc = "idle"
    /\ slider_moves < MaxSliderMoves
    /\ \E v \in ForceValues \ {piston_output} : piston_output' = v
    /\ slider_moves' = slider_moves + 1
    /\ UNCHANGED <<url_num_robots, mass, pc, i, j, robot_array, scene, raf_pending,
                   frame, start_index, triggers, trace, previous_pass>>

mass_input ==
    /\ pc = "idle"
    /\ slider_moves < MaxSliderMoves
    /\ \E v \in MassValues \ {mass} : mass' = v
    /\ slider_moves' = slider_moves + 1
    /\ UNCHANGED <<url_num_robots, piston_output, pc, i, j, robot_array, scene,
                   raf_pending, frame, start_index, triggers, trace, previous_pass>>

(* ------------------------------- frames -------------------------------- *)

\* animate calling assign_initial_direction without the collision pass
animate_without_pass ==
    /\ pc = "idle"
    /\ frame < FrameLimit
    /\ frame = 0 \/ raf_pending
    /\ raf_pending' = TRUE
    /\ start_index' = [k \in 1..N |-> robot_array[k].index]
    /\ triggers' = [k \in 1..N |-> 0]
    /\ trace' = <<>>
    /\ previous_pass' = PassFound
    /\ IF N = 0
       THEN /\ pc' = "idle"
            /\ frame' = frame + 1
            /\ UNCHANGED <<i, j>>
       ELSE /\ pc' = "dispatch"
            /\ i' = 1
            /\ j' = 0
            /\ UNCHANGED frame
    /\ UNCHANGED <<url_num_robots, piston_output, mass, slider_moves, scene, robot_array>>

\* animate: requestAnimationFrame(animate), render, then the collision pass
\* starts; the first call is physicsEngine.animate(), the later ones are the
\* host's. With no robot both loops of the frame end at once.
animate ==
    /\ pc = "idle"
    /\ frame < FrameLimit
    /\ frame = 0 \/ raf_pending
    /\ raf_pending' = TRUE
    /\ start_index' = [k \in 1..N |-> robot_array[k].index]
    /\ triggers' = [k \in 1..N |-> 0]
    /\ trace' = <<>>
    /\ previous_pass' = PassFound
    /\ IF N = 0
       THEN /\ pc' = "idle"
            /\ frame' = frame + 1
            /\ UNCHANGED <<i, j>>
       ELSE /\ pc' = "boundary"
            /\ i' = 1
            /\ j' = 0
            /\ UNCHANGED frame
    /\ UNCHANGED <<url_num_robots, piston_output, mass, slider_moves, scene, robot_array>>

\* collision_detection, outer loop: the boundary check of robot_array[i]
boundary_check ==
    /\ pc = "boundary"
    /\ LET robot_a == robot_array[i]
           hit     == out_of_bounds(robot_a)
       IN  /\ robot_array' = IF hit THEN boundary_response(robot_array, i) ELSE robot_array
           /\ triggers' = IF hit THEN [triggers EXCEPT ![i] = @ + 1] ELSE triggers
           /\ trace' = Append(trace, <<"boundary", i, hit>>)
    /\ IF i + 1 <= N
       THEN /\ pc' = "pair"
            /\ j' = i + 1
            /\ UNCHANGED i
       ELSE /\ pc' = "dispatch"
            /\ i' = 1
            /\ j' = 0
    /\ UNCHANGED <<url_num_robots, piston_output, mass, slider_moves, scene, raf_pending, frame, start_index, previous_pass>>

\* collision_detection, inner loop: robot_array[i] against robot_array[j]
pair_check ==
    /\ pc = "pair"
    /\ LET robot_a == robot_array[i]
           robot_b == robot_array[j]
           hit     == intersectsBox(robot_a.bounding_box, robot_b.bounding_box)
       IN  /\ robot_array' = IF hit THEN pair_response(robot_array, i, j) ELSE robot_array
           /\ triggers' = IF hit THEN [triggers EXCEPT ![i] = @ + 1, ![j] = @ + 1] ELSE triggers
           /\ trace' = Append(trace, <<"pair", i, j, hit>>)
    /\ IF j + 1 <= N
       THEN /\ j' = j + 1
            /\ UNCHANGED <<pc, i>>
       ELSE /\ pc' = "boundary"
            /\ i' = i + 1
            /\ j' = 0
    /\ UNCHANGED <<url_num_robots, piston_output, mass, slider_moves, scene, raf_pending, frame, start_index, previous_pass>>

\* assign_initial_direction has called the movement function of
\* robot_array[i]: on to the next robot, or the frame is over
dispatched(name) ==
    /\ trace' = Append(trace, <<name, i>>)
    /\ IF i + 1 <= N
       THEN /\ i' = i + 1
            /\ UNCHANGED <<pc, frame>>
       ELSE /\ pc' = "idle"
            /\ i' = 0
            /\ frame' = frame + 1
    /\ UNCHANGED <<url_num_robots, piston_output, mass, slider_moves, scene, j, raf_pending, start_index, triggers, previous_pass>>

\* assign_initial_direction, case 1
case_move_away ==
    /\ pc = "dispatch"
    /\ robot_array[i].index = 1
    /\ \E random_value \in RandomValues :
          robot_array' = [robot_array EXCEPT
                             ![i] = move_away(@, piston_output, mass, random_value)]
    /\ dispatched("move_away")

\* assign_initial_direction, case 2
case_move_closer ==
    /\ pc = "dispatch"
    /\ robot_array[i].index = 2
    /\ \E random_value \in RandomValues :
          robot_array' = [robot_array EXCEPT
                             ![i] = move_closer(@, piston_output, mass, random_value)]
    /\ dispatched("move_closer")

\* assign_initial_direction, case 3
case_move_left ==
    /\ pc = "dispatch"
    /\ robot_array[i].index = 3
    /\ \E random_value \in RandomValues :
          robot_array' = [robot_array EXCEPT
                             ![i] = move_left(@, piston_output, mass, random_value)]
    /\ dispatched("move_left")

\* assign_initial_direction, case 4
case_move_right ==
    /\ pc = "dispatch"
    /\ robot_array[i].index = 4
    /\ \E random_value \in RandomValues :
          robot_array' = [robot_array EXCEPT
                             ![i] = move_right(@, piston_output, mass, random_value)]
    /\ dispatched("move_right")

Next ==
    \/ initialize_robots_loop
    \/ initialize_robots_return
    \/ piston_output_input
    \/ mass_input
    \/ animate
    \/ boundary_check
    \/ pair_check
    \/ case_move_away
    \/ case_move_closer
    \/ case_move_left
    \/ case_move_right

Spec == Init /\ [][Next]_vars

\* Math.random() keeps producing every place, and the single thread goes on
\* with the loops of initialize_robots while they can take a turn
FairSpec ==
    /\ Spec
    /\ \A x \in PlaceXs, z \in PlaceZs :
          WF_vars(\E m \in 1..Len(movement) : place_candidate(x, z, m))
    /\ WF_vars(initialize_robots_return)

(* ============================== claims ================================= *)

\* the flip both collision tests are said to apply
FlipOf(v) == CASE v = 1 -> 2 [] v = 2 -> 1 [] v = 3 -> 4 [] v = 4 -> 3 [] OTHER -> v

\* the pair test of robots a and b found their boxes intersecting in this pass
PairHit(a, b) == \E e \in 1..Len(trace) : trace[e] = <<"pair", a, b, TRUE>>

\* the boundary test found robot a outside in this pass
BoundaryHit(a) == \E e \in 1..Len(trace) : trace[e] = <<"boundary", a, TRUE>>

\* the collision pass of the running frame is over
PassOver == pc = "dispatch" \/ (pc = "idle" /\ frame > 0 /\ N > 0)

\* C1: for every body, in every state reachable from initialize_robots by any
\* number of frames, the direction index is one of 1, 2, 3, 4.
C1_DirectionIndex == \A k \in 1..N : robot_array[k].index \in {1, 2, 3, 4}

\* a frame is over in which a flip was applied
C1_Witness ==
    /\ pc = "idle"
    /\ frame >= 2
    /\ \E k \in 1..N : triggers[k] > 0 /\ robot_array[k].index \in {1, 2, 3, 4}

\* C2 as stated: whenever the boxes of two bodies intersect during a pass,
\* both indices are, at the end of the pass, the flip of their values at its
\* start, whatever the size of the list.
C2_Original ==
    PassOver =>
        \A a \in 1..N, b \in 1..N :
            PairHit(a, b) =>
                /\ robot_array[a].index = FlipOf(start_index[a])
                /\ robot_array[b].index = FlipOf(start_index[b])

\* C2 amended: when the boxes of two bodies intersect during a pass and the
\* body has no other trigger in that pass (it is inside the boundary and
\* intersects no third body), its index at the end of the pass is the flip of
\* its value at the start.
C2_Amended ==
    PassOver =>
        \A a \in 1..N, b \in 1..N :
            PairHit(a, b) =>
                /\ triggers[a] = 1 => robot_array[a].index = FlipOf(start_index[a])
                /\ triggers[b] = 1 => robot_array[b].index = FlipOf(start_index[b])

\* two intersecting bodies with indices 1 and 3 end the pass with 2 and 4
C2_Witness ==
    /\ pc = "dispatch"
    /\ \E a \in 1..N, b \in 1..N :
          /\ PairHit(a, b)
          /\ triggers[a] = 1 /\ triggers[b] = 1
          /\ start_index[a] = 1 /\ start_index[b] = 3
          /\ robot_array[a].index = 2 /\ robot_array[b].index = 4

\* the rotation angle the movement function of the body's index turns
PrimaryRotation(r) == IF r.index \in {1, 2} THEN r.rotation.x ELSE r.rotation.z

\* the body after the first rotation of its movement function
AfterIntegrate(r) ==
    LET q == _calculate_physics(r, piston_output, mass)
    IN  CASE r.index = 1 -> move_away_integrate(q)
          [] r.index = 2 -> move_closer_integrate(q)
          [] r.index = 3 -> move_left_integrate(q)
          [] OTHER       -> move_right_integrate(q)

\* the body when its movement function reaches the rotation check
BeforeLanding(r) ==
    LET q == AfterIntegrate(r)
    IN  CASE r.index = 1 -> move_away_tipping(move_away_piston(q))
          [] r.index = 2 -> move_closer_tipping(move_closer_piston(q))
          [] r.index = 3 -> move_left_tipping(move_left_piston(q))
          [] OTHER       -> move_right_tipping(move_right_piston(q))

\* the movement call of this step brings the primary rotation to 90 degrees
\* or beyond
ReachesFullRotation(r) ==
    \/ Abs(PrimaryRotation(AfterIntegrate(r))) >= full_rotation
    \/ Abs(PrimaryRotation(BeforeLanding(r))) >= full_rotation

\* C3: in any of the four movement calls, whenever the magnitude of the
\* primary rotation reaches or exceeds 90 degrees, the call ends with angular
\* velocity (0,0,0), linear velocity (0,0,0) and the primary rotation 0.
C3_Landing ==
    [][(pc = "dispatch" /\ ReachesFullRotation(robot_array[i])) =>
          /\ robot_array'[i].angular_velocity = Zero
          /\ robot_array'[i].translational_velocity = Zero
          /\ PrimaryRotation(robot_array'[i]) = 0]_vars

\* a body has landed: it rests with the random settle angle on its second axis
C3_Witness ==
    \E k \in 1..N :
        /\ robot_array[k].rotation.y \in RandomValues
        /\ robot_array[k].angular_velocity = Zero
        /\ robot_array[k].translational_velocity = Zero
        /\ PrimaryRotation(robot_array[k]) = 0

\* closed intervals [lo1, hi1] and [lo2, hi2] meet
Meet(lo1, hi1, lo2, hi2) == lo1 <= hi2 /\ lo2 <= hi1

\* the bounding boxes of two robots intersect
BoxesMeet(r, q) ==
    /\ Meet(r.bounding_box.min.x, r.bounding_box.max.x, q.bounding_box.min.x, q.bounding_box.max.x)
    /\ Meet(r.bounding_box.min.y, r.bounding_box.max.y, q.bounding_box.min.y, q.bounding_box.max.y)
    /\ Meet(r.bounding_box.min.z, r.bounding_box.max.z, q.bounding_box.min.z, q.bounding_box.max.z)

\* initialize_robots has returned and no frame has run yet
Returned == pc = "idle" /\ frame = 0

\* the number initialize_robots was asked for, when num_robots is one
Requested == ToNumber(num_robots_create(url_num_robots))

\* C4: when initialize_robots(scene, n) returns, the array holds exactly n
\* bodies, no two of them with intersecting bounding boxes, and the scene holds
\* the cubes of these n bodies and no rejected candidate.
C4_Placement ==
    (Returned /\ ~Requested.nan) =>
        /\ N = Requested.value
        /\ \A a \in 1..N, b \in 1..N : a # b => ~BoxesMeet(robot_array[a], robot_array[b])
        /\ scene = [k \in 1..N |-> robot_array[k].position]

\* three bodies were placed
C4_Witness == Returned /\ N = 3 /\ Len(scene) = 3

\* initialize_robots is in its loops
Placing == pc = "initialize_robots"

\* some sampled place is free of the robots placed so far
FreePlace ==
    \E x \in PlaceXs, z \in PlaceZs :
        \A k \in 1..N : ~BoxesMeet(cube_robot(x, PlaceY, z), robot_array[k])

\* a robot is still to be placed and no sampled place is free
NoPlaceLeft == Placing /\ N < Requested.value /\ ~Requested.nan /\ ~FreePlace

\* the script is inside a frame
InFrame == pc \in {"boundary", "pair", "dispatch"}

\* the turns of the two loops of collision_detection and of the loop of
\* assign_initial_direction over n robots
FrameSteps(n) == n + ((n * (n - 1)) \div 2) + n

\* C5: under fair sampling initialize_robots returns unless it comes to a point
\* where no non-overlapping place remains for a body still to be placed; from
\* there it retries forever and never returns; and the loops of a frame are
\* bounded: the frame can always take its next turn, every turn is one of at
\* most FrameSteps(N).
C5_Retry ==
    /\ Placing ~> (Returned \/ NoPlaceLeft)
    /\ [][NoPlaceLeft => (NoPlaceLeft' /\ robot_array' = robot_array)]_vars
    /\ [][InFrame => Len(trace') = Len(trace) + 1]_vars
    /\ [](Len(trace) <= FrameSteps(N))
    /\ [](/\ pc = "boundary" => i \in 1..N
          /\ pc = "pair" => (i \in 1..N /\ j \in (i + 1)..N)
          /\ pc = "dispatch" => (i \in 1..N /\ robot_array[i].index \in 1..4))

\* two robots are placed, a third is asked for and no place is left
C5_Witness == NoPlaceLeft /\ N = 2 /\ Requested.value = 3

\* cs is a decimal numeral
IsNumeral(cs) == cs # <<>> /\ \A k \in 1..Len(cs) : IsDigit(cs[k])

\* C6: the number of bodies constructed at start is the num_robots value when
\* it is a positive integer, and 1 when it is unset or unparseable.
C6_BodyCount ==
    Returned =>
        IF url_num_robots.present /\ IsNumeral(url_num_robots.chars)
        THEN DigitsValue(url_num_robots.chars) > 0 => N = DigitsValue(url_num_robots.chars)
        ELSE N = 1

\* what movement integrates: position, rotation and the two velocities
Kinematics(r) == <<r.position, r.rotation, r.angular_velocity, r.translational_velocity>>

\* the recorded world position is outside [-20, 20] on x or z
OutsideField(r) ==
    \/ Abs(r.position_in_world.x) > Boundary * WU
    \/ Abs(r.position_in_world.z) > Boundary * WU

\* C7: collision_detection, boundary test and pair test, leaves every body's
\* position, rotation and velocities unchanged; a body whose recorded world x
\* or z is outside [-20, 20] gets the direction flip of the boundary test.
C7_FlipOnly ==
    [][(pc \in {"boundary", "pair"}) =>
          /\ \A k \in 1..N : Kinematics(robot_array'[k]) = Kinematics(robot_array[k])
          /\ (pc = "boundary" /\ OutsideField(robot_array[i])) =>
                 robot_array'[i].index = FlipOf(robot_array[i].index)]_vars

\* the pass has flipped a body for being outside, and it is still outside
C7_Witness ==
    /\ pc = "dispatch"
    /\ \E k \in 1..N :
          /\ BoundaryHit(k)
          /\ robot_array[k].index = FlipOf(start_index[k])
          /\ \/ Abs(robot_array[k].position.x) > Boundary * WU
             \/ Abs(robot_array[k].position.z) > Boundary * WU

\* the movement function assign_initial_direction calls for an index
MoveName(v) == CASE v = 1 -> "move_away" [] v = 2 -> "move_closer"
                 [] v = 3 -> "move_left" [] v = 4 -> "move_right" [] OTHER -> "none"

RECURSIVE PairsFrom(_, _, _)
\* the pair tests of robot a, from b on
PairsFrom(a, b, n) == IF b > n THEN <<>> ELSE <<<<"pair", a, b>>>> \o PairsFrom(a, b + 1, n)

RECURSIVE PassFrom(_, _)
\* the tests of a complete collision pass, from robot a on
PassFrom(a, n) ==
    IF a > n THEN <<>>
    ELSE <<<<"boundary", a>>>> \o PairsFrom(a, a + 1, n) \o PassFrom(a + 1, n)

\* a robot's index as the collision pass leaves it: flipped once per trigger
IndexAfterPass(k) == IF triggers[k] % 2 = 1 THEN FlipOf(start_index[k]) ELSE start_index[k]

\* what a frame does, in order: the whole pass, then one movement per robot
FrameOrder == PassFrom(1, N) \o [k \in 1..N |-> <<MoveName(IndexAfterPass(k)), k>>]

\* an event of the trace without the outcome of its test
Event(e) == IF e[1] = "boundary" THEN <<e[1], e[2]>>
            ELSE IF e[1] = "pair" THEN <<e[1], e[2], e[3]>> ELSE e

\* C8: every frame runs one complete collision pass over the whole list before
\* any body moves, then calls exactly one movement function per body, the one
\* of the body's index after the pass; the events of a frame are never mixed
\* with those of another.
C8_FrameOrder ==
    (InFrame \/ (pc = "idle" /\ frame > 0)) =>
        /\ Len(trace) <= Len(FrameOrder)
        /\ \A e \in 1..Len(trace) : Event(trace[e]) = FrameOrder[e]
        /\ pc \in {"boundary", "pair"} => Len(trace) < Len(PassFrom(1, N))
        /\ pc = "dispatch" => Len(trace) = Len(PassFrom(1, N)) + i - 1
        /\ pc = "idle" => Len(trace) = Len(FrameOrder)

\* a frame of three robots is over in which the pass changed an index
C8_Witness ==
    /\ pc = "idle"
    /\ frame > 0
    /\ N = 3
    /\ \E k \in 1..N : IndexAfterPass(k) # start_index[k]

\* a robot with x and z exchanged, under the sign convention of the rotation
Mirror(r) ==
    [r EXCEPT !.position = Vec(@.z, @.y, @.x),
              !.rotation = Vec(-@.z, @.y, -@.x),
              !.angular_velocity = Vec(@.z, @.y, @.x),
              !.translational_velocity = Vec(@.z, @.y, @.x)]

\* the body when its movement function reaches the tipping point check
BeforeTipping(r) ==
    LET q == AfterIntegrate(r)
    IN  CASE r.index = 1 -> move_away_piston(q)
          [] r.index = 2 -> move_closer_piston(q)
          [] r.index = 3 -> move_left_piston(q)
          [] OTHER       -> move_right_piston(q)

\* C9: move_left and move_right behave as move_away and move_closer with x and
\* z exchanged, and in the tipping phase each movement function turns the
\* primary axis by the gravity-augmented component of the angular velocity.
C9_Symmetric ==
    \A k \in 1..N, rv \in RandomValues :
        LET r == robot_array[k]
        IN  /\ r.index = 3 =>
                  Kinematics(move_left(r, piston_output, mass, rv))
                      = Kinematics(Mirror(move_away(Mirror(r), piston_output, mass, rv)))
            /\ r.index = 4 =>
                  Kinematics(move_right(r, piston_output, mass, rv))
                      = Kinematics(Mirror(move_closer(Mirror(r), piston_output, mass, rv)))
            /\ Abs(PrimaryRotation(BeforeTipping(r))) >= tipping_point_angle =>
                  Abs(PrimaryRotation(BeforeLanding(r)) - PrimaryRotation(BeforeTipping(r)))
                      = BeforeLanding(r).angular_velocity.y

\* no component of a is above the same component of b
NotAbove(a, b) == a.x <= b.x /\ a.y <= b.y /\ a.z <= b.z

\* this step is the movement call of robot k and the call lands it
LandsNow(k) ==
    /\ pc = "dispatch"
    /\ i = k
    /\ Abs(PrimaryRotation(BeforeLanding(robot_array[k]))) >= full_rotation

\* C10: unless the body lands, no component of its angular or linear velocity
\* decreases in a step, and the steps of the collision pass, direction flips
\* included, leave both velocities as they are.
C10_Accumulate ==
    [][\A k \in 1..N :
          k <= Len(robot_array') =>
              /\ ~LandsNow(k) =>
                     /\ NotAbove(robot_array[k].angular_velocity, robot_array'[k].angular_velocity)
                     /\ NotAbove(robot_array[k].translational_velocity,
                                 robot_array'[k].translational_velocity)
              /\ pc \in {"boundary", "pair"} =>
                     /\ robot_array'[k].angular_velocity = robot_array[k].angular_velocity
                     /\ robot_array'[k].translational_velocity
                            = robot_array[k].translational_velocity]_vars

\* a body that was flipped keeps the speed it had and has moved on with more
C10_Witness ==
    /\ pc = "idle"
    /\ frame >= 2
    /\ \E k \in 1..N :
          /\ IndexAfterPass(k) # start_index[k]
          /\ robot_array[k].index = IndexAfterPass(k)
          /\ robot_array[k].translational_velocity.x
                 > TranslationalStep(piston_output, mass)
          /\ TranslationalStep(piston_output, mass) > 0

\* a fraction in lowest terms, d > 0
Rat(n, d) == LET g == Gcd(Abs(n), d) IN [n |-> n \div g, d |-> d \div g]

\* product of two fractions, reduced before multiplying
RatMul(a, b) ==
    LET g1 == Gcd(Abs(a.n), b.d)
        g2 == Gcd(Abs(b.n), a.d)
    IN  Rat((a.n \div g1) * (b.n \div g2), (a.d \div g2) * (b.d \div g1))

\* inverse of a positive fraction
RatInv(a) == [n |-> a.d, d |-> a.n]

\* angular velocity units in one rad/s
RadPerSecond == 240 * MassLcm

\* user_piston_force * axis_rotation_distance * sin(45 deg), slider p
PistonTorque(p) == RatMul(RatMul(Rat(p, 100), Rat(1, 100)), Rat(Sin45, 1000))

\* user_piston_force * cos(45 deg), slider p
ForceComponent(p) == RatMul(Rat(p, 100), Rat(Cos45, 1000))

\* cube.mass, slider m
MassOf(m) == Rat(m, 1000)

\* (1 / 6) * mass * (edge / 100) ^ 2, edge 2
MomentOfInertia(m) == RatMul(RatMul(Rat(1, 6), MassOf(m)), RatMul(Rat(2, 100), Rat(2, 100)))

\* (piston torque / moment of inertia) * dt, in rad/s
ExpectedAngular(p, m) ==
    RatMul(RatMul(PistonTorque(p), RatInv(MomentOfInertia(m))), Rat(1, TimeStepInv))

\* (force component / mass) * dt, in world units
ExpectedLinear(p, m) ==
    RatMul(RatMul(ForceComponent(p), RatInv(MassOf(m))), Rat(1, TimeStepInv))

\* C11: a movement call that does not land the body changes the x and z
\* components of its angular velocity by exactly (piston torque / moment of
\* inertia) * dt and those of its linear velocity by exactly (force component
\* / mass) * dt, whatever the body's tilt, and leaves the y component of the
\* linear velocity alone; from zero velocities these are the velocities.
C11_PhysicsStep ==
    [][(pc = "dispatch" /\ ~LandsNow(i)) =>
          LET r == robot_array[i]
              q == robot_array'[i]
              da == ExpectedAngular(piston_output, mass)
              dl == ExpectedLinear(piston_output, mass)
          IN  /\ Rat(q.angular_velocity.x - r.angular_velocity.x, RadPerSecond) = da
              /\ Rat(q.angular_velocity.z - r.angular_velocity.z, RadPerSecond) = da
              /\ Rat(q.translational_velocity.x - r.translational_velocity.x, WU) = dl
              /\ Rat(q.translational_velocity.z - r.translational_velocity.z, WU) = dl
              /\ q.translational_velocity.y = r.translational_velocity.y
              /\ (r.angular_velocity = Zero /\ r.translational_velocity = Zero) =>
                     /\ Rat(q.angular_velocity.x, RadPerSecond) = da
                     /\ Rat(q.translational_velocity.z, WU) = dl]_vars

\* at force 1.0 and mass 0.05 a body has had one movement call from rest and
\* a second one while tilted, and carries twice the step
C11_Witness ==
    /\ pc = "idle"
    /\ frame = 2
    /\ slider_moves = 0
    /\ piston_output = 100
    /\ mass = 50
    /\ \E k \in 1..N :
          /\ Rat(robot_array[k].angular_velocity.x, RadPerSecond) = Rat(707, 60)
          /\ Rat(robot_array[k].translational_velocity.z, WU) = Rat(707, 9000)
          /\ robot_array[k].angular_velocity.y = 0
          /\ PrimaryRotation(robot_array[k]) # 0

\* the triggers of robot k in a pass over the list as it stands: one for a
\* recorded world position outside the boundary, one for each other robot
\* whose box intersects its box
TriggersOf(k) ==
    (IF OutsideField(robot_array[k]) THEN 1 ELSE 0)
        + Cardinality({b \in (1..N) \ {k} : BoxesMeet(robot_array[k], robot_array[b])})

\* the collision pass has just ended and no robot has moved yet
PassJustOver == pc = "dispatch" /\ i = 1

\* C12: at the end of a collision pass a body's index differs from its index
\* at the start of the pass if and only if the number of its triggers is odd,
\* and then it is the flip of it; with an even number it is unchanged.
C12_FlipParity ==
    PassJustOver =>
        \A k \in 1..N :
            /\ TriggersOf(k) = triggers[k]
            /\ IF TriggersOf(k) % 2 = 1
               THEN /\ robot_array[k].index = FlipOf(start_index[k])
                    /\ robot_array[k].index # start_index[k]
               ELSE robot_array[k].index = start_index[k]

\* a pass ends with a body outside the boundary that intersects one other
\* body, and with a body that has one trigger
C12_Witness ==
    /\ PassJustOver
    /\ \E k \in 1..N :
          /\ TriggersOf(k) = 2
          /\ OutsideField(robot_array[k])
          /\ robot_array[k].index = start_index[k]
    /\ \E k \in 1..N : TriggersOf(k) = 1 /\ robot_array[k].index # start_index[k]

\* the axis group of a direction index: away/closer or left/right
AxisGroup(v) == IF v \in {1, 2} THEN {1, 2} ELSE IF v \in {3, 4} THEN {3, 4} ELSE {v}

\* what is left alone between robot r and the same robot later, q: the group
\* of the index, the y position, and the coordinates of the other axis
SameAxis(r, q) ==
    /\ q.index \in AxisGroup(r.index)
    /\ q.position.y = r.position.y
    /\ r.index \in {1, 2} => (q.position.x = r.position.x /\ q.rotation.z = r.rotation.z)
    /\ r.index \in {3, 4} => (q.position.z = r.position.z /\ q.rotation.x = r.rotation.x)

\* the values the robot was constructed with: rotation 0, y 1.3, a sampled
\* x and z
AsConstructed(r) ==
    /\ r.position.y = PlaceY
    /\ r.index \in {1, 2} => (r.position.x \in PlaceXs /\ r.rotation.z = 0)
    /\ r.index \in {3, 4} => (r.position.z \in PlaceZs /\ r.rotation.x = 0)

\* C13: no step takes a body's index out of its axis group, changes a {1,2}
\* body's x position or z rotation, a {3,4} body's z position or x rotation,
\* or any body's y position; so these keep the values of construction.
C13_AxisGroup ==
    /\ [][\A k \in 1..N : SameAxis(robot_array[k], robot_array'[k])]_vars
    /\ [](\A k \in 1..N : AsConstructed(robot_array[k]))

\* two frames are over; a {1,2} body was flipped and has moved along z and
\* turned about x, a {3,4} body has moved along x and turned about z
C13_Witness ==
    /\ pc = "idle"
    /\ frame = 2
    /\ \E k \in 1..N :
          /\ robot_array[k].index \in {1, 2}
          /\ robot_array[k].index # start_index[k]
          /\ robot_array[k].position.z \notin PlaceZs
          /\ robot_array[k].rotation.x # 0
    /\ \E k \in 1..N :
          /\ robot_array[k].index \in {3, 4}
          /\ robot_array[k].position.x \notin PlaceXs
          /\ robot_array[k].rotation.z # 0

\* the robot's movement function takes it further beyond the side of the
\* field its recorded world position is outside of
HeadsOutward(r) ==
    \/ r.position_in_world.x > Boundary * WU /\ r.index = 4
    \/ r.position_in_world.x < -(Boundary * WU) /\ r.index = 3
    \/ r.position_in_world.z > Boundary * WU /\ r.index = 2
    \/ r.position_in_world.z < -(Boundary * WU) /\ r.index = 1

\* the pass of the running frame found robot k outside and no box
\* intersecting its box
OnlyOutside(k) == BoundaryHit(k) /\ triggers[k] = 1

\* the same of the pass of the frame before
OnlyOutsideBefore(k) == k \in previous_pass.outside /\ previous_pass.triggers[k] = 1

\* C14: the boundary test of every pass answers for exactly the bodies whose
\* recorded world position is outside [-20, 20] on x or z, and flips their
\* index whichever way they are heading; a body with no box intersections
\* that two consecutive passes find outside begins the second pass with the
\* flipped, inward-heading index and leaves it with the index it had at the
\* start of the first.
C14_LevelTriggered ==
    PassJustOver =>
        \A k \in 1..N :
            /\ BoundaryHit(k) <=> OutsideField(robot_array[k])
            /\ OnlyOutside(k) => robot_array[k].index = FlipOf(start_index[k])
            /\ (OnlyOutside(k) /\ OnlyOutsideBefore(k)) =>
                   /\ start_index[k] = FlipOf(previous_pass.start_index[k])
                   /\ robot_array[k].index = previous_pass.start_index[k]

\* the third pass ends: the second and the third found the body outside with
\* no intersection, and the body heads outward again
C14_Witness ==
    /\ PassJustOver
    /\ frame = 2
    /\ \E k \in 1..N :
          /\ OnlyOutside(k)
          /\ OnlyOutsideBefore(k)
          /\ robot_array[k].index = previous_pass.start_index[k]
          /\ robot_array[k].index # start_index[k]
          /\ HeadsOutward(robot_array[k])

====
